---- MODULE Spec2Model ----
(***************************************************************************)
(* The chunked map-reduce pipelines of apps/fractional_cover/tasks.py and  *)
(* apps/tsm/tasks.py: the celery chain run() (parse, validate, chunk,      *)
(* start), the processing units, the reducers, band math and the output    *)
(* stage, sharing one task record with an external canceller.              *)
(*                                                                         *)
(* Every DB access of a stage (objects.get, check_cancel_task, save,       *)
(* update_status) is a point where another process can interleave: a stage *)
(* is cut into steps that hold at most one cancel check each, and the      *)
(* local work that follows a check (loads from the data cube, folds) is    *)
(* part of the step of the next access.                                    *)
(***************************************************************************)
EXTENDS Integers, Sequences, FiniteSets, TLC

\* ----------------------------------------------------------------- bounds
MaxAcq == 3
MaxGeo == 2
MaxScenes == 4
MaxSlices == 11
MaxTiles == 4
MaxStats == 4
MaxExtent == 4

\* ------------------------------------------------------------ python values
None == [none |-> TRUE]

\* what the tasks of the chain return
Parameters == [value |-> "parameters"]
ChunkDetails == [value |-> "chunk_details"]
True == [value |-> "True"]

\* ------------------------------------------------------------------- state
VARIABLES
    app,                \* "fc" (fractional_cover) or "tsm"
    iterative,          \* task.get_iterative()
    task,               \* the persisted task record
    stage,              \* position of the chain built by run()
    arg,                \* the value the chain hands to its next task
    acquisitions,       \* None, or the listing of dc.list_combined_acquisition_dates(...)
    geographic_chunks,  \* len(geographic_chunks)
    time_chunks,        \* len(time_chunk) of each time chunk, in order
    unit,               \* processing_task units: [pc, i, prod]
    ures,               \* what each processing_task returned
    inner,              \* the reducer of each inner group: [pc, k]
    innerRes,           \* what it returned
    band,               \* fractional cover: process_band_math per geo chunk
    bandRes,
    outer,              \* the outermost reducer: [pc, k]
    outerRes,
    output,             \* create_output_products
    files,              \* scratch storage: path -> content
    added,              \* sum of the amounts handed to the counter increments
    resets,             \* how often the counters were reset
    raw_slices,         \* one pixel of each acquisition, by date
    tiles,              \* the datasets of the geographic chunks of one mosaic
    extent,             \* the longitude and latitude ranges to be chunked
    animation_id,       \* task.animated_product.animation_id
    reverse_time,       \* task.get_reverse_time()
    time_chunk_size,    \* task.get_chunk_size()['time']
    reduced             \* what the time reduction of the slices gave

vars == <<app, iterative, task, stage, arg, acquisitions, geographic_chunks,
          time_chunks, unit, ures, inner, innerRes, band, bandRes, outer,
          outerRes, output, files, added, resets, raw_slices, tiles, extent, animation_id, reverse_time,
          time_chunk_size, reduced>>

sliceVars == <<raw_slices, tiles, extent, animation_id, reverse_time, time_chunk_size, reduced>>

chainVars == <<stage, arg>>
chunkVars == <<acquisitions, geographic_chunks, time_chunks>>
unitVars == <<unit, ures>>
reduceVars == <<inner, innerRes, band, bandRes, outer, outerRes, output>>

GeoIds == 0 .. (MaxGeo - 1)
TimeIds == 0 .. (MaxAcq - 1)
UnitIds == GeoIds \X TimeIds
GroupIds == GeoIds \cup TimeIds

\* ------------------------------------------------------------ the chunker
\* sorted(datetime_list, reverse=_reversed) of the dates 1..n
SortedDates(n, _reversed) ==
    [i \in 1 .. n |-> IF _reversed THEN n + 1 - i ELSE i]

\* a time chunk size of None is written 0
NoSize == 0

\* the chunks of chunk_size dates only, without the shorter last one
WholeChunksOnly(n, _reversed, chunk_size) ==
    LET dates == SortedDates(n, _reversed)
    IN  IF chunk_size = NoSize
        THEN << dates >>
        ELSE [c \in 1 .. (n \div chunk_size) |->
                SubSeq(dates, (c - 1) * chunk_size + 1, c * chunk_size)]

create_time_chunks(n, _reversed, chunk_size) ==
    LET dates == SortedDates(n, _reversed)
    IN  IF chunk_size = NoSize
        THEN << dates >>
        ELSE LET cnt == (n + chunk_size - 1) \div chunk_size
             IN  [c \in 1 .. cnt |->
                    SubSeq(dates, (c - 1) * chunk_size + 1,
                           IF c * chunk_size <= n
                           THEN c * chunk_size ELSE n)]

\* ------------------------------------------------------- the task record
NewTask ==
    [status |-> "CREATED", complete |-> FALSE, cancelled |-> FALSE,
     total_scenes |-> 0, scenes_processed |-> 0, execution_end |-> FALSE,
     message |-> ""]

check_cancel_task(rec) == rec.cancelled

update_status(rec, code) == [rec EXCEPT !.status = code]

\* task.update_status("WAIT", message): the status of a step of the pipeline
FirstMessage(rec, message) ==
    [update_status(rec, "WAIT") EXCEPT !.message = "Parsed out parameters."]

wait_status(rec, message) ==
    [update_status(rec, "WAIT") EXCEPT !.message = message]

\* task.complete = True; task.update_status(code, ...)
StatusOnly(rec, code) == update_status(rec, code)

complete_with(rec, code) == update_status([rec EXCEPT !.complete = TRUE], code)

\* task.scenes_processed = F('scenes_processed') + n
\* task.save(update_fields=['scenes_processed'])
IncrementFullSave(rec, n) ==
    [rec EXCEPT !.scenes_processed = @ + n, !.status = "WAIT",
                !.cancelled = FALSE]

\* task.scenes_processed = n, without F('scenes_processed')
PlainSave(rec, n) == [rec EXCEPT !.scenes_processed = n]

IncrementSave(rec, n) == [rec EXCEPT !.scenes_processed = @ + n]

\* python 3 round(a / b): ties go to the even neighbour
Round(a, b) ==
    LET q == a \div b
        r == a % b
    IN  IF 2 * r < b THEN q
        ELSE IF 2 * r > b THEN q + 1
        ELSE IF q % 2 = 0 THEN q ELSE q + 1

Sum(lens) ==
    LET RECURSIVE S(_)
        S(i) == IF i = 0 THEN 0 ELSE lens[i] + S(i - 1)
    IN  S(Len(lens))

num_scenes == geographic_chunks * Sum(time_chunks)
num_scn_per_chk == Round(num_scenes, Len(time_chunks) * geographic_chunks)
\* the scenes of all the geographic chunks together
num_scn_all_geo == Round(num_scenes, 1)

num_scn_per_chk_geo == Round(num_scenes, geographic_chunks)

\* ------------------------------------------------------- the external canceller
\* The cancel request of the web layer: it sets the cancel flag and the
\* status of a task that is still running.
Cancel ==
    /\ ~task.cancelled
    /\ ~task.complete
    /\ task' = [task EXCEPT !.cancelled = TRUE, !.status = "CANCELLED"]
    /\ UNCHANGED <<sliceVars, app, iterative, chainVars, chunkVars, unitVars, reduceVars,
                   files, added, resets>>

\* ------------------------------------------------------------ the run() chain
Chain(a) == app = a

parse_parameters_from_task(a) ==
    /\ Chain(a)
    /\ \/ /\ stage = "parse"
          /\ IF check_cancel_task(task)
             THEN stage' = "validate" /\ arg' = None
             ELSE stage' = "parse_write" /\ arg' = arg
          /\ task' = task
       \/ /\ stage = "parse_write"
          /\ task' = wait_status(task, "Parsed out parameters.")
          /\ stage' = "validate"
          /\ arg' = Parameters
    /\ UNCHANGED <<sliceVars, app, iterative, chunkVars, unitVars, reduceVars, files,
                   added, resets>>

\* the checks of validate_parameters that follow the acquisition listing
ValidationError(a, n, over_a_year) ==
    \/ n < 1
    \/ a = "fc" /\ ~iterative /\ over_a_year

validate_parameters(a) ==
    /\ Chain(a)
    /\ \/ /\ stage = "validate"
          /\ IF check_cancel_task(task)
             THEN stage' = "chunk" /\ arg' = None
             ELSE stage' = "validate_list" /\ arg' = arg
          /\ UNCHANGED <<task, acquisitions>>
       \/ /\ stage = "validate_list"
          /\ \E n \in 0 .. MaxAcq, over_a_year \in BOOLEAN :
                /\ acquisitions' = [count |-> n]
                /\ IF ValidationError(a, n, over_a_year)
                   THEN /\ task' = complete_with(task, "ERROR")
                        /\ stage' = "chunk"
                        /\ arg' = None
                   ELSE /\ task' = task
                        /\ stage' = "validate_check"
                        /\ arg' = arg
       \/ /\ stage = "validate_check"
          /\ IF check_cancel_task(task)
             THEN stage' = "chunk" /\ arg' = None
             ELSE stage' = "validate_write" /\ arg' = arg
          /\ UNCHANGED <<task, acquisitions>>
       \/ /\ stage = "validate_write"
          /\ task' = wait_status(task, "Validated parameters.")
          /\ stage' = "validate_measurements"
          /\ UNCHANGED <<arg, acquisitions>>
       \/ /\ stage = "validate_measurements"
          /\ \E valid \in BOOLEAN :
                IF ~valid
                THEN task' = complete_with(task, "ERROR") /\ arg' = None
                ELSE task' = task /\ arg' = Parameters
          /\ stage' = "chunk"
          /\ acquisitions' = acquisitions
    /\ UNCHANGED <<sliceVars, app, iterative, geographic_chunks, time_chunks, unitVars,
                   reduceVars, files, added, resets>>

\* if parameters is None: return None
ChunkingNeverSkipped(parameters) == FALSE

ChunkingSkipped(parameters) == parameters = None

perform_task_chunking(a) ==
    /\ Chain(a)
    /\ \/ /\ stage = "chunk"
          /\ IF ChunkingSkipped(arg)
             THEN stage' = "start" /\ arg' = None
             ELSE IF check_cancel_task(task)
                  THEN stage' = "start" /\ arg' = None
                  ELSE stage' = "chunk_work" /\ arg' = arg
          /\ UNCHANGED <<task, geographic_chunks, time_chunks>>
       \/ /\ stage = "chunk_work"
          /\ \E g \in 1 .. MaxGeo, size \in {NoSize} \cup (1 .. MaxAcq),
                _reversed \in BOOLEAN :
                LET chunks == create_time_chunks(acquisitions.count, _reversed, size)
                IN  /\ g * acquisitions.count <= MaxScenes
                    /\ geographic_chunks' = g
                    /\ time_chunks' = [c \in DOMAIN chunks |-> Len(chunks[c])]
          /\ IF check_cancel_task(task)
             THEN stage' = "start" /\ arg' = None
             ELSE stage' = "chunk_write" /\ arg' = arg
          /\ task' = task
       \/ /\ stage = "chunk_write"
          /\ task' = wait_status(task, "Chunked parameter set.")
          /\ stage' = "start"
          /\ arg' = ChunkDetails
          /\ UNCHANGED <<geographic_chunks, time_chunks>>
    /\ UNCHANGED <<sliceVars, app, iterative, acquisitions, unitVars, reduceVars, files,
                   added, resets>>

\* task.total_scenes = 4 * num_scenes (fractional cover), 2 * num_scenes (tsm)
SceneWeight(a) == IF a = "fc" THEN 4 ELSE 2

\* the inner groups of the canvas: one per geographic chunk (fractional
\* cover), one per time chunk (tsm)
Groups(a) ==
    IF a = "fc" THEN 0 .. (geographic_chunks - 1)
    ELSE 0 .. (Len(time_chunks) - 1)

\* the processing_tasks of the first time chunk only
FirstTimeChunk == (0 .. (geographic_chunks - 1)) \X {0}

Scheduled == (0 .. (geographic_chunks - 1)) \X (0 .. (Len(time_chunks) - 1))

OffUnit == [pc |-> "off", i |-> 0, prod |-> FALSE, data |-> FALSE, checked |-> FALSE]
OffReducer == [pc |-> "off", k |-> 0]

\* if chunk_details is None: return None
StartSkipped(chunk_details) == chunk_details = None

start_chunk_processing(a) ==
    /\ Chain(a)
    /\ \/ /\ stage = "start"
          /\ IF StartSkipped(arg)
             THEN /\ stage' = "end"
                  /\ UNCHANGED <<task, added, resets>>
             ELSE /\ task' = [task EXCEPT
                                !.total_scenes = SceneWeight(a) * num_scenes,
                                !.scenes_processed = 0]
                  /\ added' = 0
                  /\ resets' = resets + 1
                  /\ stage' = "start_check"
          /\ UNCHANGED <<arg, unitVars, reduceVars>>
       \/ /\ stage = "start_check"
          /\ stage' = IF check_cancel_task(task) THEN "end" ELSE "start_write"
          /\ arg' = IF check_cancel_task(task) THEN None ELSE arg
          /\ UNCHANGED <<task, added, resets, unitVars, reduceVars>>
       \/ /\ stage = "start_write"
          /\ task' = wait_status(task, "Starting processing.")
          /\ unit' = [u \in UnitIds |->
                        IF u \in Scheduled
                        THEN [OffUnit EXCEPT !.pc = "sched"]
                        ELSE OffUnit]
          /\ inner' = [x \in GroupIds |->
                        IF x \in Groups(a) THEN [pc |-> "wait", k |-> 0]
                        ELSE OffReducer]
          /\ band' = [g \in GeoIds |->
                        IF a = "fc" /\ g < geographic_chunks
                        THEN "wait" ELSE "off"]
          /\ outer' = [pc |-> "wait", k |-> 0]
          /\ output' = "wait"
          /\ stage' = "end"
          /\ arg' = True
          /\ UNCHANGED <<ures, innerRes, bandRes, outerRes, added, resets>>
    /\ UNCHANGED <<sliceVars, app, iterative, chunkVars, files>>

\* ------------------------------------------------------------ scratch paths
\* str(n) as character codes
RECURSIVE Str(_)
Str(n) == IF n < 10 THEN << 48 + n >> ELSE Str(n \div 10) \o << 48 + (n % 10) >>

DotNc == << 46, 110, 99 >>
Underscore == << 95 >>
RecombinedGeo == << 114, 101, 99, 111, 109, 98, 105, 110, 101, 100, 95, 103,
                    101, 111, 95 >>
RecombinedTime == << 114, 101, 99, 111, 109, 98, 105, 110, 101, 100, 95, 116,
                     105, 109, 101, 95 >>

\* the file name of a scratch path, below task.get_temp_path()
FileName(path) ==
    CASE path[1] = "chunk" -> Str(path[2]) \o Underscore \o Str(path[3]) \o DotNc
      [] path[1] = "recombined_time" -> RecombinedTime \o Str(path[2]) \o DotNc
      [] path[1] = "recombined_geo" -> RecombinedGeo \o Str(path[2]) \o DotNc

\* python's order of two strings
RECURSIVE StrLess(_, _)
StrLess(s, t) ==
    IF t = << >> THEN FALSE
    ELSE IF s = << >> THEN TRUE
    ELSE IF Head(s) # Head(t) THEN Head(s) < Head(t)
    ELSE StrLess(Tail(s), Tail(t))

\* key=lambda x: x[0]
PathLess(x, y) == StrLess(FileName(x.path), FileName(y.path))

\* sorted(chunks, key=lambda x: x[0]): a stable sort, each chunk goes to the
\* place given by the number of chunks that come before it
SortedByPath(chunks) ==
    LET Before(j, i) ==
            IF j < i THEN ~PathLess(chunks[i], chunks[j])
            ELSE j # i /\ PathLess(chunks[j], chunks[i])
        rank == [i \in DOMAIN chunks |->
                    Cardinality({j \in DOMAIN chunks : Before(j, i)}) + 1]
    IN  [r \in 1 .. Len(chunks) |->
            chunks[CHOOSE i \in DOMAIN chunks : rank[i] = r]]

\* [chunk for chunk in chunks if chunk is not None]
NotNone(chunks) == SelectSeq(chunks, LAMBDA c : c # None)

Result(path, g, t) ==
    [path |-> path, ids |-> [geo_chunk_id |-> g, time_chunk_id |-> t]]

\* the content of an artifact: the units whose data it holds, and whether
\* the band math was merged into it
Data(src) == [src |-> src, band_math |-> FALSE]

Write(fs, path, content) == (path :> content) @@ fs

Returned == {"done", "cancelled"}
\* ------------------------------------------------------ processing_task

\* one range for the whole time chunk, whatever the mode
SingleLoad(u) == 1

Loads(u) == IF iterative THEN time_chunks[u[2] + 1] ELSE 1

\* a path keyed by the geographic chunk alone
GeoPath(u) == <<"chunk", u[1], 0>>

ChunkPath(u) == <<"chunk", u[1], u[2]>>

UnitReturns(u, pc, value) ==
    /\ unit' = [unit EXCEPT ![u].pc = pc]
    /\ ures' = [ures EXCEPT ![u] = value]

\* the end of one pass of the loop over times: the next load, or after the
\* last one the export of iteration_data (combined_data) and the return
EagerExport(u) ==
    IF unit[u].i < Loads(u)
    THEN /\ unit' = [unit EXCEPT ![u].pc = "load", ![u].i = @ + 1]
         /\ files' = IF unit[u].prod
                     THEN Write(files, ChunkPath(u), Data({u})) ELSE files
         /\ ures' = ures
    ELSE IF ~unit[u].prod
    THEN UnitReturns(u, "done", None) /\ files' = files
    ELSE /\ files' = Write(files, ChunkPath(u), Data({u}))
         /\ UnitReturns(u, "done", Result(ChunkPath(u), u[1], u[2]))

LoopEnd(u, checked) ==
    IF unit[u].i < Loads(u)
    THEN /\ unit' = [unit EXCEPT ![u].pc = "load", ![u].i = @ + 1,
                                 ![u].checked = checked]
         /\ UNCHANGED <<ures, files>>
    ELSE /\ unit' = [unit EXCEPT ![u].pc = "done", ![u].checked = checked]
         /\ IF ~unit[u].prod
            THEN ures' = [ures EXCEPT ![u] = None] /\ files' = files
            ELSE /\ files' = Write(files, ChunkPath(u), Data({u}))
                 /\ ures' = [ures EXCEPT
                               ![u] = Result(ChunkPath(u), u[1], u[2])]

NextLoad(u) == LoopEnd(u, unit[u].checked)

\* if check_cancel_task(self, task): return, right after the load and
\* before the test of what the load returned
ChecksAfterData(data) == data

ChecksAfterLoad(data) == TRUE

\* the cancel check of a unit: the unit returns, or goes on with the step
\* that follows the check
UnitCheck(u, goes_on) ==
    IF check_cancel_task(task)
    THEN /\ unit' = [unit EXCEPT ![u].pc = "cancelled", ![u].checked = TRUE]
         /\ ures' = [ures EXCEPT ![u] = None]
         /\ files' = files
    ELSE goes_on

fc_processing_task(u) ==
    /\ app = "fc"
    /\ \/ /\ unit[u].pc = "sched"
          /\ \E temp_path_exists \in BOOLEAN :
                UnitCheck(u,
                    IF ~temp_path_exists
                    THEN UnitReturns(u, "done", None)
                    ELSE /\ unit' = [unit EXCEPT ![u].pc = "load", ![u].i = 1,
                                                 ![u].checked = TRUE]
                         /\ ures' = ures)
          /\ UNCHANGED <<task, files, added>>
       \/ /\ unit[u].pc = "load"
          /\ \E data \in BOOLEAN :
                unit' = [unit EXCEPT ![u].pc = "loaded", ![u].data = data,
                                     ![u].checked = FALSE]
          /\ UNCHANGED <<task, ures, files, added>>
       \/ /\ unit[u].pc = "loaded"
          /\ LET test == IF unit[u].data
                         THEN /\ unit' = [unit EXCEPT
                                            ![u].pc = "check",
                                            ![u].prod = TRUE,
                                            ![u].data = FALSE,
                                            ![u].checked =
                                                ChecksAfterLoad(unit[u].data)]
                              /\ UNCHANGED <<ures, files>>
                         ELSE LoopEnd(u, ChecksAfterLoad(unit[u].data))
             IN  IF ChecksAfterLoad(unit[u].data)
                 THEN UnitCheck(u, test) ELSE test
          /\ UNCHANGED <<task, added>>
       \/ /\ unit[u].pc = "check"
          /\ UnitCheck(u, /\ unit' = [unit EXCEPT ![u].pc = "increment",
                                                  ![u].checked = TRUE]
                          /\ UNCHANGED <<ures, files>>)
          /\ UNCHANGED <<task, added>>
       \/ /\ unit[u].pc = "increment"
          /\ task' = IncrementSave(task, 1)
          /\ added' = added + 1
          /\ NextLoad(u)
    /\ UNCHANGED <<sliceVars, app, iterative, chainVars, chunkVars, reduceVars, resets>>

tsm_processing_task(u) ==
    /\ app = "tsm"
    /\ \/ /\ unit[u].pc = "sched"
          /\ \E temp_path_exists \in BOOLEAN :
                UnitCheck(u,
                    IF ~temp_path_exists
                    THEN UnitReturns(u, "done", None)
                    ELSE /\ unit' = [unit EXCEPT ![u].pc = "load", ![u].i = 1,
                                                 ![u].checked = TRUE]
                         /\ ures' = ures)
          /\ UNCHANGED <<task, files, added>>
       \/ /\ unit[u].pc = "load"
          /\ \E data \in BOOLEAN :
                unit' = [unit EXCEPT ![u].pc = "loaded", ![u].data = data,
                                     ![u].checked = FALSE]
          /\ UNCHANGED <<task, ures, files, added>>
       \/ /\ unit[u].pc = "loaded"
          /\ LET test == IF unit[u].data
                         THEN /\ unit' = [unit EXCEPT
                                            ![u].pc = "check",
                                            ![u].data = FALSE,
                                            ![u].checked =
                                                ChecksAfterLoad(unit[u].data)]
                              /\ UNCHANGED <<ures, files>>
                         ELSE LoopEnd(u, ChecksAfterLoad(unit[u].data))
             IN  IF ChecksAfterLoad(unit[u].data)
                 THEN UnitCheck(u, test) ELSE test
          /\ UNCHANGED <<task, added>>
       \/ /\ unit[u].pc = "check"
          /\ UnitCheck(u, /\ unit' = [unit EXCEPT ![u].pc = "increment",
                                                  ![u].prod = TRUE,
                                                  ![u].checked = TRUE]
                          /\ UNCHANGED <<ures, files>>)
          /\ UNCHANGED <<task, added>>
       \/ /\ unit[u].pc = "increment"
          /\ task' = IncrementSave(task, 1)
          /\ added' = added + 1
          /\ NextLoad(u)
    /\ UNCHANGED <<sliceVars, app, iterative, chainVars, chunkVars, reduceVars, resets>>

\* ------------------------------------------------------------ the canvas
\* group([...]) | body: the body is called with the results of the group once
\* every task of the group has returned.
AnyOf(members) == \E pc \in members : pc \in Returned

AllOf(members) == \A pc \in members : pc \in Returned

TimeIdsOf(g) == 0 .. (Len(time_chunks) - 1)
GeoIdsOf(t) == 0 .. (geographic_chunks - 1)

\* the results of a group, in the order the group lists its tasks
ListOf(f, n) == [i \in 1 .. n |-> f[i - 1]]

Union(contents) ==
    Data(UNION {contents[i].src : i \in DOMAIN contents})

Contents(chunks) == [i \in DOMAIN chunks |-> files[chunks[i].path]]

\* the loop left after its first chunk
LastChunk(r, total_chunks) == [pc |-> "finish", k |-> r.k]

NextChunk(r, total_chunks) ==
    IF r.k < Len(total_chunks)
    THEN [pc |-> "iterate", k |-> r.k + 1]
    ELSE [pc |-> "finish", k |-> r.k]

\* ------------------------------------------- fractional cover: the reducers
fc_time_inputs(g) ==
    ListOf([t \in TimeIds |-> ures[<<g, t>>]], Len(time_chunks))

fc_total_chunks(g) == SortedByPath(NotNone(fc_time_inputs(g)))

fc_recombine_time_chunks(g) ==
    /\ app = "fc"
    /\ \/ /\ inner[g].pc = "wait"
          /\ AllOf({unit[<<g, t>>].pc : t \in TimeIdsOf(g)})
          /\ IF check_cancel_task(task)
             THEN inner' = [inner EXCEPT ![g].pc = "cancelled"]
             ELSE IF Len(NotNone(fc_time_inputs(g))) = 0
             THEN inner' = [inner EXCEPT ![g].pc = "done"]
             ELSE inner' = [inner EXCEPT ![g] = [pc |-> "iterate", k |-> 1]]
          /\ UNCHANGED <<task, added, innerRes, files>>
       \/ /\ inner[g].pc = "iterate"
          /\ IF inner[g].k = 1
             THEN /\ task' = IncrementSave(task, num_scn_per_chk)
                  /\ added' = added + num_scn_per_chk
                  /\ inner' = [inner EXCEPT
                                 ![g] = NextChunk(@, fc_total_chunks(g))]
             ELSE /\ inner' = [inner EXCEPT ![g].pc =
                                 IF check_cancel_task(task)
                                 THEN "cancelled" ELSE "increment"]
                  /\ UNCHANGED <<task, added>>
          /\ UNCHANGED <<innerRes, files>>
       \/ /\ inner[g].pc = "increment"
          /\ task' = IncrementSave(task, num_scn_per_chk)
          /\ added' = added + num_scn_per_chk
          /\ inner' = [inner EXCEPT ![g] = NextChunk(@, fc_total_chunks(g))]
          /\ UNCHANGED <<innerRes, files>>
       \/ /\ inner[g].pc = "finish"
          /\ LET total_chunks == fc_total_chunks(g)
                 path == <<"recombined_time",
                           total_chunks[1].ids.geo_chunk_id>>
             IN  /\ files' = Write(files, path, Union(Contents(total_chunks)))
                 /\ innerRes' = [innerRes EXCEPT ![g] =
                        Result(path, total_chunks[1].ids.geo_chunk_id,
                               total_chunks[1].ids.time_chunk_id)]
          /\ inner' = [inner EXCEPT ![g].pc = "done"]
          /\ UNCHANGED <<task, added>>
    /\ UNCHANGED <<sliceVars, app, iterative, chainVars, chunkVars, unitVars, band,
                   bandRes, outer, outerRes, output, resets>>

\* if chunk is None: return None
BandMathNeverSkipped(chunk) == FALSE

BandMathSkipped(chunk) == chunk = None

fc_process_band_math(g) ==
    /\ app = "fc"
    /\ \/ /\ band[g] = "wait"
          /\ inner[g].pc \in Returned
          /\ band' = [band EXCEPT ![g] =
                        IF check_cancel_task(task) THEN "cancelled"
                        ELSE IF BandMathSkipped(innerRes[g]) THEN "done"
                        ELSE "run"]
          /\ UNCHANGED <<task, added, bandRes, files>>
       \/ /\ band[g] = "run"
          /\ LET chunk == innerRes[g]
             IN  /\ files' = Write(files, chunk.path,
                                   [files[chunk.path] EXCEPT !.band_math = TRUE])
                 /\ bandRes' = [bandRes EXCEPT ![g] = chunk]
          /\ task' = IncrementSave(task, 2 * num_scn_per_chk_geo)
          /\ added' = added + 2 * num_scn_per_chk_geo
          /\ band' = [band EXCEPT ![g] = "done"]
    /\ UNCHANGED <<sliceVars, app, iterative, chainVars, chunkVars, unitVars, inner,
                   innerRes, outer, outerRes, output, resets>>

fc_geo_inputs == ListOf(bandRes, geographic_chunks)

fc_recombine_geographic_chunks ==
    /\ app = "fc"
    /\ \/ /\ outer.pc = "wait"
          /\ AllOf({band[g] : g \in GeoIdsOf(0)})
          /\ outer' = [outer EXCEPT !.pc =
                         IF check_cancel_task(task) THEN "cancelled"
                         ELSE IF Len(NotNone(fc_geo_inputs)) = 0 THEN "done"
                         ELSE "run"]
          /\ UNCHANGED <<outerRes, files>>
       \/ /\ outer.pc = "run"
          /\ LET total_chunks == NotNone(fc_geo_inputs)
             IN  IF \E i \in DOMAIN total_chunks : total_chunks[i] = None
                 THEN outer' = [outer EXCEPT !.pc = "failed"]
                      /\ UNCHANGED <<outerRes, files>>
                 ELSE LET path == <<"recombined_geo",
                                    total_chunks[1].ids.time_chunk_id>>
                      IN  /\ files' = Write(files, path,
                                            Union(Contents(total_chunks)))
                          /\ outerRes' =
                               Result(path, total_chunks[1].ids.geo_chunk_id,
                                      total_chunks[1].ids.time_chunk_id)
                          /\ outer' = [outer EXCEPT !.pc = "done"]
    /\ UNCHANGED <<sliceVars, app, iterative, task, chainVars, chunkVars, unitVars, inner,
                   innerRes, band, bandRes, output, added, resets>>

\* ------------------------------------------------------- tsm: the reducers
tsm_geo_inputs(t) ==
    ListOf([g \in GeoIds |-> ures[<<g, t>>]], geographic_chunks)

tsm_recombine_geographic_chunks(t) ==
    /\ app = "tsm"
    /\ \/ /\ inner[t].pc = "wait"
          /\ AllOf({unit[<<g, t>>].pc : g \in GeoIdsOf(t)})
          /\ IF check_cancel_task(task)
             THEN inner' = [inner EXCEPT ![t].pc = "cancelled"]
             ELSE IF Len(NotNone(tsm_geo_inputs(t))) = 0
             THEN inner' = [inner EXCEPT ![t].pc = "done"]
             ELSE inner' = [inner EXCEPT ![t] = [pc |-> "iterate", k |-> 1]]
          /\ UNCHANGED <<task, added, innerRes, files>>
       \/ /\ inner[t].pc = "iterate"
          /\ task' = IncrementSave(task, num_scn_per_chk)
          /\ added' = added + num_scn_per_chk
          /\ inner' = [inner EXCEPT
                         ![t] = NextChunk(@, NotNone(tsm_geo_inputs(t)))]
          /\ UNCHANGED <<innerRes, files>>
       \/ /\ inner[t].pc = "finish"
          /\ LET total_chunks == NotNone(tsm_geo_inputs(t))
                 path == <<"recombined_geo",
                           total_chunks[1].ids.time_chunk_id>>
             IN  /\ files' = Write(files, path, Union(Contents(total_chunks)))
                 /\ innerRes' = [innerRes EXCEPT ![t] =
                        Result(path, total_chunks[1].ids.geo_chunk_id,
                               total_chunks[1].ids.time_chunk_id)]
          /\ inner' = [inner EXCEPT ![t].pc = "done"]
          /\ UNCHANGED <<task, added>>
    /\ UNCHANGED <<sliceVars, app, iterative, chainVars, chunkVars, unitVars, band,
                   bandRes, outer, outerRes, output, resets>>

tsm_time_inputs == ListOf(innerRes, Len(time_chunks))

tsm_total_chunks == SortedByPath(NotNone(tsm_time_inputs))

tsm_recombine_time_chunks ==
    /\ app = "tsm"
    /\ \/ /\ outer.pc = "wait"
          /\ AllOf({inner[t].pc : t \in TimeIdsOf(0)})
          /\ IF check_cancel_task(task)
             THEN outer' = [outer EXCEPT !.pc = "cancelled"]
             ELSE IF Len(NotNone(tsm_time_inputs)) = 0
             THEN outer' = [outer EXCEPT !.pc = "done"]
             ELSE outer' = [pc |-> "iterate", k |-> 1]
          /\ UNCHANGED <<outerRes, files>>
       \/ /\ outer.pc = "iterate"
          /\ IF outer.k > 1 /\ check_cancel_task(task)
             THEN outer' = [outer EXCEPT !.pc = "cancelled"]
             ELSE outer' = NextChunk(outer, tsm_total_chunks)
          /\ UNCHANGED <<outerRes, files>>
       \/ /\ outer.pc = "finish"
          /\ LET total_chunks == tsm_total_chunks
                 path == <<"recombined_time",
                           total_chunks[1].ids.geo_chunk_id>>
             IN  /\ files' = Write(files, path, Union(Contents(total_chunks)))
                 /\ outerRes' =
                      Result(path, total_chunks[1].ids.geo_chunk_id,
                             total_chunks[1].ids.time_chunk_id)
          /\ outer' = [outer EXCEPT !.pc = "done"]
    /\ UNCHANGED <<sliceVars, app, iterative, task, chainVars, chunkVars, unitVars, inner,
                   innerRes, band, bandRes, output, added, resets>>

\* --------------------------------------------------- create_output_products
create_output_products(a) ==
    /\ Chain(a)
    /\ \/ /\ output = "wait"
          /\ outer.pc \in Returned
          /\ output' = IF check_cancel_task(task) THEN "cancelled"
                       ELSE IF outerRes = None THEN "failed" ELSE "run"
          /\ task' = task
       \/ /\ output = "run"
          /\ task' = complete_with([task EXCEPT !.execution_end = TRUE], "OK")
          /\ output' = "done"
    /\ UNCHANGED <<sliceVars, app, iterative, chainVars, chunkVars, unitVars, inner,
                   innerRes, band, bandRes, outer, outerRes, files, added,
                   resets>>

\* the failure channel of the orchestrator: a stage that raised (data[1] of a
\* None) has its task marked complete with status ERROR
on_failure ==
    /\ output = "failed" \/ outer.pc = "failed"
    /\ task' = complete_with(task, "ERROR")
    /\ output' = IF output = "failed" THEN "error" ELSE output
    /\ outer' = IF outer.pc = "failed" THEN [outer EXCEPT !.pc = "error"]
                ELSE outer
    /\ UNCHANGED <<sliceVars, app, iterative, chainVars, chunkVars, unitVars, inner,
                   innerRes, band, bandRes, outerRes, files, added, resets>>

\* ------------------------------------------------------------- pixel_drill
\* pixel_drill calls parse_parameters_from_task and validate_parameters
\* itself, and goes on where the chain would start the chunking
pixel_drill(a) ==
    /\ Chain(a)
    /\ \/ /\ stage = "chunk"
          /\ IF task.status = "ERROR"
             THEN stage' = "drill_skipped" /\ output' = output
             ELSE IF arg = None
             THEN stage' = "drill_raised" /\ output' = "failed"
             ELSE stage' = "drill_load" /\ output' = output
          /\ task' = task
       \/ /\ stage = "drill_load"
          /\ \E dates \in 0 .. MaxAcq :
                IF dates < 2
                THEN /\ task' = update_status(task, "ERROR")
                     /\ stage' = "drill_few"
                ELSE /\ task' = task
                     /\ stage' = "drill_plot"
          /\ output' = output
       \/ /\ stage = "drill_plot"
          /\ task' = complete_with(task, "OK")
          /\ stage' = "drill_done"
          /\ output' = output
    /\ UNCHANGED <<sliceVars, app, iterative, arg, chunkVars, unitVars, inner,
                   innerRes, band, bandRes, outer, outerRes, files, added,
                   resets>>

fc_pixel_drill == pixel_drill("fc")
tsm_pixel_drill == pixel_drill("tsm")

\* --------------------------------------------------------- the two pipelines
fc_parse_parameters_from_task == parse_parameters_from_task("fc")
fc_validate_parameters == validate_parameters("fc")
fc_perform_task_chunking == perform_task_chunking("fc")
fc_start_chunk_processing == start_chunk_processing("fc")
fc_create_output_products == create_output_products("fc")

tsm_parse_parameters_from_task == parse_parameters_from_task("tsm")
tsm_validate_parameters == validate_parameters("tsm")
tsm_perform_task_chunking == perform_task_chunking("tsm")
tsm_start_chunk_processing == start_chunk_processing("tsm")
tsm_create_output_products == create_output_products("tsm")

\* ------------------------------------------------- the mosaic of the tiles
\* combine_geographic_chunks: the tiles are stitched one after the other, a
\* position that is already covered keeps its value
KeepLast(combined_data, chunk) == chunk

combine_first(combined_data, chunk) ==
    [position \in DOMAIN combined_data \cup DOMAIN chunk |->
        IF position \in DOMAIN combined_data THEN combined_data[position]
        ELSE chunk[position]]

RECURSIVE combine_geographic_chunks(_)
combine_geographic_chunks(chunk_data) ==
    IF Len(chunk_data) = 1 THEN chunk_data[1]
    ELSE combine_first(
            combine_geographic_chunks(SubSeq(chunk_data, 1, Len(chunk_data) - 1)),
            chunk_data[Len(chunk_data)])

\* recombine_geographic_chunks: None without a chunk that is not None, else
\* the mosaic of the chunks that are not None, in the order of the list
recombined_geo(chunks) ==
    LET total_chunks == NotNone(chunks)
    IN  IF Len(total_chunks) = 0 THEN None
        ELSE [data |-> combine_geographic_chunks(
                          [i \in DOMAIN total_chunks |-> total_chunks[i].data])]

Orders(n) ==
    {perm \in [1 .. n -> 1 .. n] : \A i, j \in 1 .. n : i # j => perm[i] # perm[j]}

geo_mosaic(a) ==
    /\ app = a
    /\ reduced = [state |-> "todo"]
    /\ \E perm \in Orders(Len(tiles)) :
          reduced' =
             [state |-> "done",
              order |-> perm,
              combined |-> recombined_geo([i \in DOMAIN tiles |-> tiles[perm[i]]]),
              whole |-> recombined_geo(tiles)]
    /\ UNCHANGED <<app, iterative, task, chainVars, chunkVars, unitVars,
                   reduceVars, files, added, resets, raw_slices, tiles, extent, animation_id,
                   reverse_time, time_chunk_size>>

fc_geo_mosaic == geo_mosaic("fc")
tsm_geo_mosaic == geo_mosaic("tsm")

\* the time reduction has not run yet
Todo == [state |-> "todo"]

\* ---------------------------------------- the time reduction of one pixel
\* The pluggable processing method of the task: a mosaic that keeps the valid
\* pixel of the intermediate product and fills the others from the new data.
\* The time chunks are handed over most recent first when reverse_time is
\* set, so that the most recent clean pixel wins.
ProcessingMethod(data, intermediate_product) ==
    IF intermediate_product = None THEN data ELSE intermediate_product

\* processing_task: the loop over the loads of one time chunk; a load that
\* returns no data is skipped
RECURSIVE fold_loads(_, _, _)
fold_loads(time_chunk, time_index, iteration_data) ==
    IF time_index > Len(time_chunk) THEN iteration_data
    ELSE LET data == raw_slices[time_chunk[time_index]]
         IN  fold_loads(time_chunk, time_index + 1,
                        IF data = None THEN iteration_data
                        ELSE ProcessingMethod(data, iteration_data))

chunk_product(time_chunk) == fold_loads(time_chunk, 1, None)

\* what the processing_task of each time chunk returns, in the order of the
\* group, with the file name the pipeline gives it
slice_chunks == create_time_chunks(Len(raw_slices), reverse_time, time_chunk_size)

slice_results(kind) ==
    [c \in 1 .. Len(slice_chunks) |->
        IF chunk_product(slice_chunks[c]) = None THEN None
        ELSE Result(IF kind = "chunk" THEN <<"chunk", 0, c - 1>>
                    ELSE <<kind, c - 1>>, 0, c - 1)]

\* recombine_time_chunks: the loop over total_chunks
RECURSIVE fold_chunks(_, _, _)
fold_chunks(total_chunks, index, combined_data) ==
    IF index > Len(total_chunks) THEN combined_data
    ELSE LET data == chunk_product(
                        slice_chunks[total_chunks[index].ids.time_chunk_id + 1])
         IN  fold_chunks(total_chunks, index + 1,
                         IF combined_data = None THEN data
                         ELSE ProcessingMethod(data, combined_data))

TimeOrder(total_chunks) ==
    [i \in DOMAIN total_chunks |-> total_chunks[i].ids.time_chunk_id]

fc_time_reduction ==
    /\ app = "fc"
    /\ reduced = Todo
    /\ LET total_chunks == SortedByPath(NotNone(slice_results("chunk")))
       IN  reduced' =
             [state |-> "done",
              order |-> TimeOrder(total_chunks),
              combined |-> fold_chunks(total_chunks, 1, None),
              whole |-> chunk_product(
                          create_time_chunks(Len(raw_slices), reverse_time,
                                             NoSize)[1])]
    /\ UNCHANGED <<app, iterative, task, chainVars, chunkVars, unitVars,
                   reduceVars, files, added, resets, raw_slices, tiles, extent, animation_id, reverse_time,
                   time_chunk_size>>

tsm_time_reduction ==
    /\ app = "tsm"
    /\ reduced = Todo
    /\ LET total_chunks == SortedByPath(NotNone(slice_results("recombined_geo")))
       IN  reduced' =
             [state |-> "done",
              order |-> TimeOrder(total_chunks),
              combined |-> None,
              whole |-> None]
    /\ UNCHANGED <<app, iterative, task, chainVars, chunkVars, unitVars,
                   reduceVars, files, added, resets, raw_slices, tiles, extent, animation_id, reverse_time,
                   time_chunk_size>>

\* ------------------------------------------- the statistics of one pixel
\* a value that is no data; a value that is data is [value |-> v]
NaN == [nan |-> TRUE]

RECURSIVE GCD(_, _)
GCD(a, b) == IF b = 0 THEN a ELSE GCD(b, a % b)

\* total_data / total_clean, as a fraction in lowest terms; 0 / 0 is no data
Divide(a, b) ==
    IF b = 0 THEN NaN
    ELSE [num |-> a \div GCD(a, b), den |-> b \div GCD(a, b)]

\* min and max over the two time steps of a concat
PropagatingMin(a, b) ==
    IF a = NaN \/ b = NaN THEN NaN ELSE IF b.value < a.value THEN b ELSE a

skipna_min(a, b) ==
    IF a = NaN THEN b
    ELSE IF b = NaN THEN a
    ELSE IF b.value < a.value THEN b ELSE a

skipna_max(a, b) ==
    IF a = NaN THEN b
    ELSE IF b = NaN THEN a
    ELSE IF b.value > a.value THEN b ELSE a

\* the bands of one load of processing_task: the water classification of a
\* clean pixel, and the tsm of a clean pixel that is water
wofs_band(data) ==
    IF data.clean THEN [value |-> IF data.water THEN 1 ELSE 0] ELSE NaN

tsm_band(data) ==
    IF data.clean /\ data.water THEN [value |-> data.tsm] ELSE NaN

\* perform_timeseries_analysis: the running sum, count, mean and extrema of
\* one band
perform_timeseries_analysis(band_data, intermediate_product) ==
    LET data_sum == IF band_data = NaN THEN 0 ELSE band_data.value
        clean_sum == IF band_data = NaN THEN 0 ELSE 1
    IN  IF intermediate_product = None
        THEN [total_data |-> data_sum,
              total_clean |-> clean_sum,
              normalized_data |-> Divide(data_sum, clean_sum),
              min |-> band_data,
              max |-> band_data]
        ELSE [total_data |-> intermediate_product.total_data + data_sum,
              total_clean |-> intermediate_product.total_clean + clean_sum,
              normalized_data |->
                  Divide(intermediate_product.total_data + data_sum,
                         intermediate_product.total_clean + clean_sum),
              min |-> skipna_min(intermediate_product.min, band_data),
              max |-> skipna_max(intermediate_product.max, band_data)]

\* processing_task of tsm: the loop over the loads of one time chunk; a load
\* that returns no data is skipped
RECURSIVE tsm_fold_loads(_, _, _, _)
tsm_fold_loads(time_chunk, time_index, water_analysis, tsm_analysis) ==
    IF time_index > Len(time_chunk)
    THEN IF tsm_analysis = None THEN None
         ELSE [total_data |-> tsm_analysis.total_data,
               total_clean |-> tsm_analysis.total_clean,
               normalized_data |-> tsm_analysis.normalized_data,
               min |-> tsm_analysis.min,
               max |-> tsm_analysis.max,
               wofs |-> water_analysis.total_data,
               wofs_total_clean |-> water_analysis.total_clean]
    ELSE LET data == raw_slices[time_chunk[time_index]]
         IN  IF data = None
             THEN tsm_fold_loads(time_chunk, time_index + 1,
                                 water_analysis, tsm_analysis)
             ELSE tsm_fold_loads(
                     time_chunk, time_index + 1,
                     perform_timeseries_analysis(wofs_band(data), water_analysis),
                     perform_timeseries_analysis(tsm_band(data), tsm_analysis))

tsm_chunk_product(time_chunk) == tsm_fold_loads(time_chunk, 1, None, None)

combine_intermediates(dataset, dataset_intermediate) ==
    [total_data |-> dataset_intermediate.total_data + dataset.total_data,
     total_clean |-> dataset_intermediate.total_clean + dataset.total_clean,
     normalized_data |->
         Divide(dataset_intermediate.total_data + dataset.total_data,
                dataset_intermediate.total_clean + dataset.total_clean),
     min |-> skipna_min(dataset_intermediate.min, dataset.min),
     max |-> skipna_max(dataset_intermediate.max, dataset.max),
     wofs |-> dataset_intermediate.wofs + dataset.wofs,
     wofs_total_clean |->
         dataset_intermediate.wofs_total_clean + dataset.wofs_total_clean]

\* the artifacts recombine_time_chunks of tsm opens, in the order of
\* total_chunks
tsm_inputs(total_chunks) ==
    [index \in DOMAIN total_chunks |->
        tsm_chunk_product(
            slice_chunks[total_chunks[index].ids.time_chunk_id + 1])]

\* recombine_time_chunks of tsm: the loop over total_chunks
RECURSIVE tsm_fold_chunks(_, _, _)
tsm_fold_chunks(inputs, index, combined_data) ==
    IF index > Len(inputs) THEN combined_data
    ELSE tsm_fold_chunks(inputs, index + 1,
                         IF combined_data = None THEN inputs[index]
                         ELSE combine_intermediates(inputs[index],
                                                    combined_data))

tsm_slice_results ==
    [c \in 1 .. Len(slice_chunks) |->
        IF tsm_chunk_product(slice_chunks[c]) = None THEN None
        ELSE Result(<<"recombined_geo", c - 1>>, 0, c - 1)]

tsm_statistics ==
    /\ app = "tsm"
    /\ reduced = Todo
    /\ LET total_chunks == SortedByPath(NotNone(tsm_slice_results))
       IN  reduced' =
             [state |-> "done",
              order |-> TimeOrder(total_chunks),
              inputs |-> tsm_inputs(total_chunks),
              combined |-> tsm_fold_chunks(tsm_inputs(total_chunks), 1, None),
              whole |-> tsm_chunk_product(
                          create_time_chunks(Len(raw_slices), reverse_time,
                                             NoSize)[1])]
    /\ UNCHANGED <<app, iterative, task, chainVars, chunkVars, unitVars,
                   reduceVars, files, added, resets, raw_slices, tiles, extent, animation_id,
                   reverse_time, time_chunk_size>>

\* ------------------------------------------------ the geographic chunks
\* the end of a chunk: the last chunk of a row or a column is cut at the end
\* of the extent
Unclamped(end, limit) == end

Clamp(end, limit) == IF end < limit THEN end ELSE limit

\* create_geographic_chunks: the extent tiled row by row with squares of
\* geographic_chunk_size; without a size, the extent itself
create_geographic_chunks(longitude, latitude, geographic_chunk_size) ==
    IF geographic_chunk_size = NoSize
    THEN << [longitude |-> longitude, latitude |-> latitude] >>
    ELSE LET size == geographic_chunk_size
             columns == (longitude[2] - longitude[1] + size - 1) \div size
             rows == (latitude[2] - latitude[1] + size - 1) \div size
         IN  [k \in 1 .. (rows * columns) |->
                LET row == (k - 1) \div columns
                    column == (k - 1) % columns
                IN  [longitude |->
                        << longitude[1] + column * size,
                           Clamp(longitude[1] + (column + 1) * size, longitude[2]) >>,
                     latitude |->
                        << latitude[1] + row * size,
                           Clamp(latitude[1] + (row + 1) * size, latitude[2]) >>]]

\* perform_task_chunking: the geographic chunks of the extent of the task
geo_chunking(a) ==
    /\ app = a
    /\ extent # None
    /\ reduced = Todo
    /\ \E geographic_chunk_size \in {NoSize} \cup (1 .. MaxExtent) :
          reduced' =
             [state |-> "done",
              size |-> geographic_chunk_size,
              chunks |-> create_geographic_chunks(
                            extent.longitude, extent.latitude,
                            geographic_chunk_size)]
    /\ UNCHANGED <<app, iterative, task, chainVars, chunkVars, unitVars,
                   reduceVars, files, added, resets, raw_slices, tiles, extent, animation_id,
                   reverse_time, time_chunk_size>>

fc_geo_chunking == geo_chunking("fc")
tsm_geo_chunking == geo_chunking("tsm")


\* ------------------------------------------------ the animation of tsm
\* task.get_chunk_size()['time'] if it is not None, else 1
chunk_size_time == IF time_chunk_size = NoSize THEN 1 ELSE time_chunk_size

\* base_index of a time chunk: the frames of the chunk are numbered from it
frame_base_index(id) == chunk_size_time * id

\* processing_task of tsm with an animation: the loop over the loads of one
\* time chunk; after each load that returned data the frame of the load is
\* written, the scene itself or the running product of the chunk
RECURSIVE tsm_frames(_, _, _, _, _, _, _)
tsm_frames(g, base_index, time_chunk, time_index, water, analysis, fs) ==
    IF time_index > Len(time_chunk) THEN fs
    ELSE LET data == raw_slices[time_chunk[time_index]]
         IN  IF data = None
             THEN tsm_frames(g, base_index, time_chunk, time_index + 1,
                             water, analysis, fs)
             ELSE LET water_analysis ==
                          perform_timeseries_analysis(wofs_band(data), water)
                      tsm_analysis ==
                          perform_timeseries_analysis(tsm_band(data), analysis)
                      combined_data ==
                          [total_data |-> tsm_analysis.total_data,
                           total_clean |-> tsm_analysis.total_clean,
                           normalized_data |-> tsm_analysis.normalized_data,
                           min |-> tsm_analysis.min,
                           max |-> tsm_analysis.max,
                           wofs |-> water_analysis.total_data,
                           wofs_total_clean |-> water_analysis.total_clean]
                      animated_data ==
                          IF animation_id = "scene" THEN tsm_band(data)
                          ELSE combined_data
                  IN  tsm_frames(
                         g, base_index, time_chunk, time_index + 1,
                         water_analysis, tsm_analysis,
                         Write(fs,
                               <<"animation", g, base_index + (time_index - 1)>>,
                               g :> animated_data))

\* the processing_task of geographic chunk g and time chunk t; the units run
\* in the order of the groups
tsm_animated_processing_task(g, t) ==
    /\ app = "tsm"
    /\ animation_id # "none"
    /\ reduced.state = "frames"
    /\ t < Len(slice_chunks)
    /\ g < geographic_chunks
    /\ reduced.units = t * geographic_chunks + g
    /\ files' = tsm_frames(g, frame_base_index(t), slice_chunks[t + 1], 1,
                           None, None, files)
    /\ reduced' = [reduced EXCEPT !.units = @ + 1]
    /\ UNCHANGED <<app, iterative, task, chainVars, chunkVars, unitVars,
                   reduceVars, added, resets, raw_slices, tiles, extent,
                   animation_id, reverse_time, time_chunk_size>>

\* recombine_geographic_chunks of tsm with an animation, for time chunk t:
\* nothing without a unit that returned a chunk; else, for each index below
\* the time chunk size, the frames of the geographic chunks that exist are
\* stitched and written as the frame of the index
tsm_animated_recombine_geographic_chunks(t) ==
    /\ app = "tsm"
    /\ animation_id # "none"
    /\ reduced.state = "frames"
    /\ t < Len(slice_chunks)
    /\ reduced.groups = t
    /\ reduced.units >= (t + 1) * geographic_chunks
    /\ LET base_index == frame_base_index(t)
           Existing(index) ==
               SelectSeq([c \in 1 .. geographic_chunks |->
                             <<"animation", c - 1, base_index + index>>],
                         LAMBDA path : path \in DOMAIN files)
           animated_data(index) ==
               [i \in DOMAIN Existing(index) |-> files[Existing(index)[i]]]
           written == {index \in 0 .. (chunk_size_time - 1) :
                          Len(Existing(index)) > 0}
       IN  files' =
             IF tsm_chunk_product(slice_chunks[t + 1]) = None THEN files
             ELSE [path \in {<<"animation", base_index + index>> :
                                index \in written} |->
                      combine_geographic_chunks(
                          animated_data(path[2] - base_index))] @@ files
    /\ reduced' = [reduced EXCEPT !.groups = @ + 1]
    /\ UNCHANGED <<app, iterative, task, chainVars, chunkVars, unitVars,
                   reduceVars, added, resets, raw_slices, tiles, extent,
                   animation_id, reverse_time, time_chunk_size>>

\* generate_animation of recombine_time_chunks: index is the position of the
\* chunk in total_chunks; every frame of the index that exists is opened,
\* the combined data is added to it unless the animation is of scenes, and
\* it is written as a final frame
generate_animation(index, combined_data, fs) ==
    LET base_index == frame_base_index(index)
        existing == {i \in 0 .. (chunk_size_time - 1) :
                        <<"animation", base_index + i>> \in DOMAIN fs}
        Final(i) ==
            LET animated_data == fs[<<"animation", base_index + i>>]
            IN  IF animation_id # "scene" /\ combined_data # None
                THEN [g \in DOMAIN animated_data |->
                         combine_intermediates(combined_data, animated_data[g])]
                ELSE animated_data
    IN  [path \in {<<"animation_final", base_index + i>> : i \in existing} |->
            Final(path[2] - base_index)] @@ fs

\* recombine_time_chunks of tsm with an animation: the loop over total_chunks
RECURSIVE tsm_animate_chunks(_, _, _, _)
tsm_animate_chunks(inputs, index, combined_data, fs) ==
    IF index > Len(inputs) THEN fs
    ELSE IF combined_data = None
         THEN tsm_animate_chunks(inputs, index + 1, inputs[index],
                                 generate_animation(index - 1, None, fs))
         ELSE LET combined == combine_intermediates(inputs[index],
                                                    combined_data)
              IN  tsm_animate_chunks(
                     inputs, index + 1, combined,
                     generate_animation(index - 1, combined, fs))

tsm_animated_recombine_time_chunks ==
    /\ app = "tsm"
    /\ animation_id # "none"
    /\ reduced.state = "frames"
    /\ reduced.groups = Len(slice_chunks)
    /\ LET total_chunks == SortedByPath(NotNone(tsm_slice_results))
       IN  /\ files' = tsm_animate_chunks(tsm_inputs(total_chunks), 1, None,
                                          files)
           /\ reduced' = [state |-> "done", order |-> TimeOrder(total_chunks)]
    /\ UNCHANGED <<app, iterative, task, chainVars, chunkVars, unitVars,
                   reduceVars, added, resets, raw_slices, tiles, extent,
                   animation_id, reverse_time, time_chunk_size>>


Idle ==
    /\ task = NewTask
    /\ stage = "parse"
    /\ arg = None
    /\ acquisitions = None
    /\ geographic_chunks = 0
    /\ time_chunks = << >>
    /\ unit = [u \in UnitIds |-> OffUnit]
    /\ ures = [u \in UnitIds |-> None]
    /\ inner = [x \in GroupIds |-> OffReducer]
    /\ innerRes = [x \in GroupIds |-> None]
    /\ band = [g \in GeoIds |-> "off"]
    /\ bandRes = [g \in GeoIds |-> None]
    /\ outer = OffReducer
    /\ outerRes = None
    /\ output = "off"
    /\ files = << >>
    /\ added = 0
    /\ resets = 0

Init ==
    /\ app \in {"fc", "tsm"}
    /\ iterative \in BOOLEAN
    /\ Idle
    /\ raw_slices = << >>
    /\ tiles = << >>
    /\ extent = None
    /\ animation_id = "none"
    /\ reverse_time = FALSE
    /\ time_chunk_size = NoSize
    /\ reduced = Todo

Stages ==
    \/ fc_parse_parameters_from_task
    \/ fc_validate_parameters
    \/ fc_perform_task_chunking
    \/ fc_start_chunk_processing
    \/ \E u \in UnitIds : fc_processing_task(u)
    \/ \E g \in GeoIds : fc_recombine_time_chunks(g)
    \/ \E g \in GeoIds : fc_process_band_math(g)
    \/ fc_recombine_geographic_chunks
    \/ fc_create_output_products
    \/ tsm_parse_parameters_from_task
    \/ tsm_validate_parameters
    \/ tsm_perform_task_chunking
    \/ tsm_start_chunk_processing
    \/ \E u \in UnitIds : tsm_processing_task(u)
    \/ \E t \in TimeIds : tsm_recombine_geographic_chunks(t)
    \/ tsm_recombine_time_chunks
    \/ tsm_create_output_products
    \/ on_failure

Next == Cancel \/ Stages

Spec == Init /\ [][Next]_vars

\* a run that is never cancelled: the workers run every task of the chain and
\* of the canvas that is ready
LiveSpec == Init /\ [][Stages]_vars /\ WF_vars(Stages)

\* the pixel drill of a task
NextDrill ==
    \/ Cancel
    \/ fc_parse_parameters_from_task
    \/ fc_validate_parameters
    \/ fc_pixel_drill
    \/ tsm_parse_parameters_from_task
    \/ tsm_validate_parameters
    \/ tsm_pixel_drill
    \/ on_failure

SpecDrill == Init /\ [][NextDrill]_vars

\* the statistics of tsm alone, over every list of scenes and every time
\* chunk size
Scenes ==
    {None} \cup [clean : BOOLEAN, water : BOOLEAN, tsm : 1 .. 2]

InitStats ==
    /\ app = "tsm"
    /\ iterative = TRUE
    /\ Idle
    /\ \E n \in 1 .. MaxStats :
          /\ raw_slices \in [1 .. n -> Scenes]
          /\ time_chunk_size \in {NoSize} \cup (1 .. n)
    /\ \A d \in DOMAIN raw_slices :
          (raw_slices[d] # None /\ ~(raw_slices[d].clean /\ raw_slices[d].water))
              => raw_slices[d].tsm = 1
    /\ tiles = << >>
    /\ extent = None
    /\ animation_id = "none"
    /\ reverse_time = FALSE
    /\ reduced = Todo

NextStats == tsm_statistics

SpecStats == InitStats /\ [][NextStats]_vars

\* the geographic chunking alone, over every extent and every chunk size
InitTiling ==
    /\ app \in {"fc", "tsm"}
    /\ iterative = TRUE
    /\ Idle
    /\ raw_slices = << >>
    /\ tiles = << >>
    /\ \E west, south \in 0 .. 1, width, height \in 1 .. MaxExtent :
          extent = [longitude |-> << west, west + width >>,
                    latitude |-> << south, south + height >>]
    /\ animation_id = "none"
    /\ reverse_time = FALSE
    /\ time_chunk_size = NoSize
    /\ reduced = Todo

NextTiling == fc_geo_chunking \/ tsm_geo_chunking

SpecTiling == InitTiling /\ [][NextTiling]_vars

\* the animation of tsm alone, over every number of dates, every time chunk
\* size and every date without data
InitAnimation ==
    /\ app = "tsm"
    /\ iterative = TRUE
    /\ task = NewTask
    /\ stage = "parse"
    /\ arg = None
    /\ acquisitions = None
    /\ geographic_chunks \in 1 .. MaxGeo
    /\ time_chunks = << >>
    /\ unit = [u \in UnitIds |-> OffUnit]
    /\ ures = [u \in UnitIds |-> None]
    /\ inner = [x \in GroupIds |-> OffReducer]
    /\ innerRes = [x \in GroupIds |-> None]
    /\ band = [g \in GeoIds |-> "off"]
    /\ bandRes = [g \in GeoIds |-> None]
    /\ outer = OffReducer
    /\ outerRes = None
    /\ output = "off"
    /\ files = << >>
    /\ added = 0
    /\ resets = 0
    /\ \E n \in 1 .. MaxSlices :
          /\ \E missing \in {{}} \cup {{d} : d \in 1 .. n} :
                raw_slices = [d \in 1 .. n |->
                                IF d \in missing THEN None
                                ELSE [clean |-> TRUE, water |-> TRUE, tsm |-> d]]
          /\ time_chunk_size \in {NoSize} \cup (1 .. n)
    /\ tiles = << >>
    /\ extent = None
    /\ animation_id \in {"scene", "cumulative"}
    /\ reverse_time = FALSE
    /\ reduced = [state |-> "frames", units |-> 0, groups |-> 0]

NextAnimation ==
    \/ \E g \in GeoIds, t \in 0 .. (MaxSlices - 1) :
          tsm_animated_processing_task(g, t)
    \/ \E t \in 0 .. (MaxSlices - 1) :
          tsm_animated_recombine_geographic_chunks(t)
    \/ tsm_animated_recombine_time_chunks

SpecAnimation == InitAnimation /\ [][NextAnimation]_vars

\* the geographic reduction alone, over every list of chunks and every order
\* of the list
InitMosaic ==
    /\ app \in {"fc", "tsm"}
    /\ iterative = TRUE
    /\ Idle
    /\ raw_slices = << >>
    /\ \E n \in 1 .. MaxTiles :
          tiles \in [1 .. n -> {None} \cup
                                {[data |-> position :> value] :
                                    position \in 1 .. n, value \in 1 .. 2}]
    /\ \A position \in DOMAIN tiles :
          tiles[position] # None => DOMAIN tiles[position].data = {position}
    /\ extent = None
    /\ animation_id = "none"
    /\ reverse_time = FALSE
    /\ time_chunk_size = NoSize
    /\ reduced = Todo

NextMosaic == fc_geo_mosaic \/ tsm_geo_mosaic

SpecMosaic == InitMosaic /\ [][NextMosaic]_vars

\* the time reduction alone, over every list of slices and every chunk size
InitReduce ==
    /\ app \in {"fc", "tsm"}
    /\ iterative = TRUE
    /\ Idle
    /\ \E n \in 1 .. MaxSlices :
          /\ \E present \in SUBSET (1 .. n) :
                raw_slices = [d \in 1 .. n |->
                                IF d \in present THEN [pixel |-> d] ELSE None]
          /\ time_chunk_size \in {NoSize} \cup (1 .. n)
    /\ tiles = << >>
    /\ extent = None
    /\ animation_id = "none"
    /\ reverse_time \in BOOLEAN
    /\ reduced = Todo

NextReduce == fc_time_reduction \/ tsm_time_reduction

SpecReduce == InitReduce /\ [][NextReduce]_vars

\* ------------------------------------------------------------------ claims
Ascending(order) ==
    \A i, j \in DOMAIN order : i < j => order[i] < order[j]

\* C2: recombine_time_chunks folds its non-None inputs in ascending integer
\* time_chunk_id, for the fractional cover file names and for the TSM ones,
\* also with eleven chunks and more.
C2_AscendingTimeOrder ==
    reduced # Todo => Ascending(reduced.order)

\* C3: for the fractional cover pipeline, folding the products of the time
\* chunks gives the product of one processing_task over the whole list.
C3_ChunkedEqualsWhole ==
    (reduced # Todo /\ app = "fc") => reduced.combined = reduced.whole

\* C3, as far as the order of C2 holds: the two products are equal whenever
\* the chunks were folded in ascending time_chunk_id.
C3_EqualWhenAscending ==
    (reduced # Todo /\ app = "fc" /\ Ascending(reduced.order))
        => reduced.combined = reduced.whole


\* C1: a run that ends with status OK has counted exactly total_scenes
\* scenes.
C1_ProcessedEqualsTotal ==
    task.status = "OK" => task.scenes_processed = task.total_scenes

\* the work the chain does after a successful validation
WorkStages == {"validate_check", "validate_write", "validate_measurements",
               "chunk_work", "chunk_write", "start_check", "start_write"}

\* C4: once the acquisition listing came back empty the task is complete with
\* status ERROR, no processing_task is scheduled, and the chunking and the
\* start of the processing return without doing their work, without
\* resetting the counters and without writing a status.
C4_EmptyListing ==
    acquisitions = [count |-> 0] =>
        /\ task.complete
        /\ task.status = "ERROR"
        /\ stage \notin WorkStages
        /\ arg = None
        /\ \A u \in UnitIds : unit[u] = OffUnit
        /\ output = "off"
        /\ resets = 0
        /\ task.total_scenes = 0
        /\ task.scenes_processed = 0
        /\ geographic_chunks = 0
        /\ time_chunks = << >>

\* C4 happens: the chain ran to its end over an empty listing.
C4_Witness == acquisitions = [count |-> 0] /\ stage = "end"

\* C5: once the cancel flag is set, no step of the pipeline changes the status
\* of the task record.
C5_NoStatusWriteAfterCancel ==
    [][task.cancelled => task'.status = task.status]_vars

\* a unit in flight that is about to run one of its cancel checks
AtCancelCheck(u) == unit[u].pc \in {"sched", "loaded", "check"}

ChunkArtifacts(fs) == {path \in DOMAIN fs : path[1] = "chunk"}

\* C6: a unit that runs a cancel check with the flag set returns there with
\* None, without a write to scratch storage and without an increment, it
\* never writes its chunk artifact and never acts again; and a chunk artifact,
\* once written, is never modified or removed.
C6_CancelledUnits ==
    /\ [](\A u \in UnitIds :
            unit[u].pc = "cancelled" =>
                ures[u] = None /\ ChunkPath(u) \notin DOMAIN files)
    /\ [][/\ \A u \in UnitIds :
               (task.cancelled /\ AtCancelCheck(u) /\ unit'[u] # unit[u]) =>
                   /\ unit'[u].pc = "cancelled"
                   /\ ures'[u] = None
                   /\ files' = files
                   /\ task' = task
          /\ \A u \in UnitIds :
               unit[u].pc = "cancelled" => unit'[u] = unit[u]
          /\ \A path \in ChunkArtifacts(files) :
               path \in DOMAIN files' /\ files'[path] = files[path]]_vars

\* C6 happens: a unit was cancelled in the middle of its loop while a sibling
\* had already written its artifact.
C6_Witness ==
    \E u, v \in UnitIds :
        /\ unit[u].pc = "cancelled" /\ unit[u].i > 0 /\ unit[u].prod
        /\ unit[v].pc = "done" /\ ChunkPath(v) \in DOMAIN files
        /\ outer.pc = "cancelled"

Started(pc) == pc \notin {"off", "wait"}

\* C7: in the fractional cover pipeline recombine_time_chunks of a geographic
\* chunk starts only after all its processing_tasks have returned,
\* process_band_math of the chunk only after its recombine_time_chunks has
\* returned, recombine_geographic_chunks only after every process_band_math
\* has returned, and create_output_products only after
\* recombine_geographic_chunks has returned.
C7_FractionalCoverBarriers ==
    app = "fc" =>
        /\ \A g \in GeoIds :
              /\ Started(inner[g].pc) =>
                    \A t \in TimeIdsOf(g) : unit[<<g, t>>].pc \in Returned
              /\ Started(band[g]) => inner[g].pc \in Returned
        /\ Started(outer.pc) => \A g \in GeoIdsOf(0) : band[g] \in Returned
        /\ Started(output) => outer.pc \in Returned

\* C7 happens: a fractional cover run over two geographic chunks of two time
\* chunks each came to its end.
C7_Witness ==
    /\ app = "fc"
    /\ geographic_chunks = 2
    /\ Len(time_chunks) = 2
    /\ output = "done"

\* C8: in the TSM pipeline recombine_geographic_chunks of a time chunk starts
\* only after all its processing_tasks have returned, the one
\* recombine_time_chunks only after every recombine_geographic_chunks has
\* returned, and create_output_products only after recombine_time_chunks has
\* returned.
C8_TsmBarriers ==
    app = "tsm" =>
        /\ \A t \in TimeIds :
              Started(inner[t].pc) =>
                  \A g \in GeoIdsOf(t) : unit[<<g, t>>].pc \in Returned
        /\ Started(outer.pc) => \A t \in TimeIdsOf(0) : inner[t].pc \in Returned
        /\ Started(output) => outer.pc \in Returned
        /\ \A g \in GeoIds : band[g] = "off"

\* C8 happens: a TSM run over two time chunks of two geographic chunks each
\* came to its end.
C8_Witness ==
    /\ app = "tsm"
    /\ geographic_chunks = 2
    /\ Len(time_chunks) = 2
    /\ output = "done"

\* C9: no increment of scenes_processed is lost, whatever the interleaving of
\* the units that add to it: the counter is its value at the reset plus the
\* sum of the amounts added since; and a step that adds to the counter
\* changes no other field of the task record.
C9_IncrementsKept ==
    /\ [](task.scenes_processed = added)
    /\ [][task'.scenes_processed > task.scenes_processed =>
            task' = [task EXCEPT !.scenes_processed = task'.scenes_processed]]_vars

\* C9 happens: two units are about to add to the counter at the same time,
\* after an earlier increment.
C9_Witness ==
    \E u, v \in UnitIds :
        /\ u # v
        /\ unit[u].pc = "increment"
        /\ unit[v].pc = "increment"
        /\ task.scenes_processed > 0

\* every processing_task of geographic chunk g returned None
EmptyGeo(g) ==
    \A t \in TimeIdsOf(g) :
        unit[<<g, t>>].pc \in Returned /\ ures[<<g, t>>] = None

Mosaic == UNION {files[ChunkPath(u)].src : u \in {v \in Scheduled : ures[v] # None}}

\* C10: in the fractional cover pipeline, when every processing_task of a
\* geographic chunk returned None, recombine_time_chunks of that chunk returns
\* None without folding, process_band_math passes None on without running the
\* band math, and recombine_geographic_chunks does not fail: it returns a
\* result whose mosaic holds the data of the other chunks only.
C10_EmptyGeoChunk ==
    app = "fc" =>
        \A g \in Groups("fc") :
            EmptyGeo(g) =>
                /\ inner[g].pc \in {"wait", "done", "cancelled"}
                /\ innerRes[g] = None
                /\ band[g] \in {"wait", "done", "cancelled"}
                /\ bandRes[g] = None
                /\ outer.pc # "failed"
                /\ (outer.pc = "done" /\ \E h \in Groups("fc") : bandRes[h] # None)
                      => /\ outerRes # None
                         /\ outerRes.path[1] = "recombined_geo"
                         /\ files[outerRes.path].src = Mosaic
                         /\ \A t \in TimeIdsOf(g) :
                               <<g, t>> \notin files[outerRes.path].src

\* C10 happens: of two geographic chunks one was empty, and the mosaic of the
\* other one was written.
C10_Witness ==
    /\ app = "fc"
    /\ geographic_chunks = 2
    /\ \E g \in Groups("fc") : EmptyGeo(g)
    /\ outer.pc = "done"
    /\ outerRes # None
    /\ output = "done"

C12_InputErrorsComplete ==
    /\ task.status = "ERROR" => task.complete
    /\ (stage = "drill_few" /\ ~task.cancelled) => task.status = "ERROR"

\* C13: in processing_task a cancel check was run before every load, since
\* the load before it if there is one, and the step that follows a load is a
\* cancel check, whether the load returned data or nothing; a check that
\* finds the flag set makes the unit return None, with no chunk artifact
\* written, no status written and no failure.
C13_ChecksAroundLoads ==
    [][\A u \in UnitIds :
          /\ (unit[u].pc = "load" /\ unit'[u] # unit[u]) =>
                unit[u].checked /\ unit'[u].pc = "loaded"
          /\ (unit[u].pc = "loaded" /\ unit'[u] # unit[u]) => unit'[u].checked
          /\ (task.cancelled /\ AtCancelCheck(u) /\ unit'[u] # unit[u]) =>
                /\ unit'[u].pc = "cancelled"
                /\ ures'[u] = None
                /\ ChunkPath(u) \notin DOMAIN files'
                /\ task' = task
                /\ output' = output]_vars

\* C13 happens: a unit whose first load was skipped as empty found the flag
\* set at the check after its second load, next to a unit that does its
\* second load after a folded one.
C13_Witness ==
    \E u, v \in UnitIds :
        /\ unit[u].pc = "cancelled" /\ unit[u].i = 2 /\ ~unit[u].prod
        /\ ~unit[u].data
        /\ unit[v].pc = "loaded" /\ unit[v].i = 2 /\ unit[v].prod

\* C14: a stage that is past its entry check when the cancel flag is set
\* still returns without persisting its output artifact: once the flag is set
\* no stage writes an artifact to scratch storage.
C14_NoArtifactAfterCancel ==
    [][task.cancelled => files' = files]_vars

\* C15: the mosaic of recombine_geographic_chunks does not depend on the
\* order of its list: whatever the permutation, the tile of each chunk that
\* is not None is at its own position with its own value, and no other
\* position is covered.
C15_MosaicOrderFree ==
    (reduced # Todo /\ tiles # << >>) =>
        /\ reduced.combined = reduced.whole
        /\ (reduced.combined = None) = (\A i \in DOMAIN tiles : tiles[i] = None)
        /\ reduced.combined # None =>
              /\ DOMAIN reduced.combined.data =
                    {i \in DOMAIN tiles : tiles[i] # None}
              /\ \A i \in DOMAIN reduced.combined.data :
                    reduced.combined.data[i] = tiles[i].data[i]

\* C15 happens: three tiles and a None were stitched in an order that is not
\* the order of the list.
C15_Witness ==
    /\ reduced # Todo
    /\ Len(tiles) = 4
    /\ Cardinality({i \in DOMAIN tiles : tiles[i] # None}) = 3
    /\ reduced.order = <<3, 4, 1, 2>>

\* the sum of one field over the inputs of the time reduction
RECURSIVE InputSum(_, _)
InputSum(field, n) ==
    IF n = 0 THEN 0 ELSE reduced.inputs[n][field] + InputSum(field, n - 1)

\* the smallest and the largest value of the inputs that have one
InputValues(field) ==
    {reduced.inputs[i][field].value :
        i \in {j \in DOMAIN reduced.inputs : reduced.inputs[j][field] # NaN}}

Extremum(values, least) ==
    IF values = {} THEN NaN
    ELSE [value |-> CHOOSE v \in values :
                       \A w \in values : IF least THEN v <= w ELSE v >= w]

\* C16: the tsm recombine_time_chunks ends with total_data, total_clean, wofs
\* and wofs_total_clean the sums over its inputs, min and max the extrema
\* over its inputs, normalized_data the quotient of the two combined totals;
\* these are the values of one pass over all the scenes, whatever the time
\* chunk size.
C16_SufficientStatistics ==
    (reduced # Todo /\ reduced.combined # None) =>
        LET n == Len(reduced.inputs)
            combined == reduced.combined
        IN  /\ combined.total_data = InputSum("total_data", n)
            /\ combined.total_clean = InputSum("total_clean", n)
            /\ combined.wofs = InputSum("wofs", n)
            /\ combined.wofs_total_clean = InputSum("wofs_total_clean", n)
            /\ combined.min = Extremum(InputValues("min"), TRUE)
            /\ combined.max = Extremum(InputValues("max"), FALSE)
            /\ combined.normalized_data =
                  Divide(combined.total_data, combined.total_clean)
            /\ combined = reduced.whole

\* C16 happens: three inputs were folded, one of them with no tsm value at
\* all, and the extrema differ.
C16_Witness ==
    /\ reduced # Todo
    /\ reduced.combined # None
    /\ Len(reduced.inputs) = 3
    /\ \E i \in DOMAIN reduced.inputs : reduced.inputs[i].min = NaN
    /\ reduced.combined.min = [value |-> 1]
    /\ reduced.combined.max = [value |-> 2]
    /\ reduced.combined.wofs_total_clean = 3
    /\ \E d \in DOMAIN raw_slices : raw_slices[d] = None

\* every processing_task and every reducer of the run has returned
AllReturned ==
    /\ Scheduled # {}
    /\ \A u \in Scheduled : unit[u].pc \in Returned
    /\ \A k \in Groups(app) : inner[k].pc \in Returned
    /\ app = "fc" => \A g \in Groups(app) : band[g] \in Returned
    /\ outer.pc \in Returned

\* C17: create_output_products, once past its entry check with an artifact
\* that is not None, leaves the task complete, with execution_end set and
\* status OK; no other step of a pipeline run writes OK, the step is taken at
\* most once, and every processing_task and every reducer has returned by
\* then.
C17_OkOnlyAtTheEnd ==
    [][/\ (output = "run" /\ output' # output) =>
              /\ task'.complete
              /\ task'.execution_end
              /\ task'.status = "OK"
       /\ (task'.status = "OK" /\ task.status # "OK") =>
              /\ output = "run"
              /\ output' = "done"
              /\ outerRes # None
              /\ AllReturned
       /\ output = "done" => output' = "done"
       /\ task.status = "OK" => task'.status = "OK"]_vars

\* C17 happens: a run that was never cancelled came to status OK.
C17_Witness ==
    /\ output = "done"
    /\ ~task.cancelled
    /\ task.status = "OK"
    /\ task.complete
    /\ task.execution_end
    /\ geographic_chunks = 2

\* the step of the pipeline the task record shows
Step(rec) ==
    IF rec.status = "OK" THEN 6
    ELSE CASE rec.message = "" -> 0
           [] rec.message = "Parsed out parameters." -> 1
           [] rec.message = "Validated parameters." -> 2
           [] rec.message = "Chunked parameter set." -> 3
           [] rec.message = "Starting processing." -> 4

StatusWrite ==
    \/ stage \in {"parse_write", "validate_write", "chunk_write", "start_write"}
          /\ stage' # stage
    \/ output = "run" /\ output' # output

\* C18: the statuses of the steps are written in the order parsed, validated,
\* chunked, processing started, done: every write of a status other than
\* ERROR shows a later step than the record showed before, so no step's
\* status is written twice and none after the status of a later step.
C18_StepsInOrder ==
    [][/\ ((task'.status # task.status \/ task'.message # task.message)
              /\ task'.status \notin {"ERROR", "CANCELLED"})
          => Step(task') > Step(task)
       /\ StatusWrite => Step(task') > Step(task)]_vars

\* C18 happens: a run wrote the status of every step up to OK.
C18_Witness ==
    /\ task.status = "OK"
    /\ task.message = "Starting processing."
    /\ stage = "end"
    /\ output = "done"
    /\ Len(time_chunks) = 3

\* C19: for G geographic chunks and T time chunks the fractional cover
\* pipeline holds one processing_task for each of the G x T pairs, one
\* recombine_time_chunks with T inputs and one process_band_math for each of
\* the G geographic chunks, one recombine_geographic_chunks with G inputs and
\* one create_output_products.
C19_FractionalCoverSchedule ==
    (app = "fc" /\ output # "off") =>
        LET G == geographic_chunks
            T == Len(time_chunks)
        IN  /\ {u \in UnitIds : unit[u].pc # "off"} = (0 .. (G - 1)) \X (0 .. (T - 1))
            /\ Cardinality({u \in UnitIds : unit[u].pc # "off"}) = G * T
            /\ {g \in GroupIds : inner[g].pc # "off"} = 0 .. (G - 1)
            /\ \A g \in 0 .. (G - 1) : Len(fc_time_inputs(g)) = T
            /\ {g \in GeoIds : band[g] # "off"} = 0 .. (G - 1)
            /\ outer.pc # "off"
            /\ Len(fc_geo_inputs) = G

\* C19 happens: two geographic chunks of two time chunks each, all four
\* processing_tasks running while every reducer waits.
C19_Witness ==
    /\ app = "fc"
    /\ geographic_chunks = 2
    /\ Len(time_chunks) = 2
    /\ \A u \in (0 .. 1) \X (0 .. 1) : unit[u].pc = "load"
    /\ \A g \in 0 .. 1 : inner[g].pc = "wait" /\ band[g] = "wait"
    /\ outer.pc = "wait"
    /\ output = "wait"

\* C20: once start_chunk_processing has reset scenes_processed the counter
\* never decreases: the amounts the stages add (1, num_scn_per_chk,
\* 2 * num_scn_per_chk_geo) are strictly positive, and every write of a stage
\* leaves the counter strictly larger than it found it.
C20_CounterNeverDecreases ==
    [][resets >= 1 =>
          /\ task'.scenes_processed >= task.scenes_processed
          /\ added' # added => task'.scenes_processed > task.scenes_processed
          /\ output # "off" => num_scn_per_chk > 0 /\ num_scn_per_chk_geo > 0]_vars

\* C20 happens: two stages of different kinds have added to the counter, one
\* of them more than a single scene.
C20_Witness ==
    /\ resets = 1
    /\ task.scenes_processed > 3
    /\ num_scn_per_chk = 2
    /\ \E k \in GroupIds : inner[k].pc = "increment"
    /\ \E u \in Scheduled : unit[u].pc = "done" /\ unit[u].prod

\* ------------------------------------------ the scratch paths of a stage
\* the tasks of the canvas
Unit(u) == [kind |-> "processing_task", a |-> u[1], b |-> u[2]]
Inner(k) == [kind |-> "inner", a |-> k, b |-> 0]
BandMath(g) == [kind |-> "process_band_math", a |-> g, b |-> 0]
Outer == [kind |-> "outer", a |-> 0, b |-> 0]
Output == [kind |-> "create_output_products", a |-> 0, b |-> 0]

CanvasTasks ==
    {Unit(u) : u \in Scheduled} \cup {Inner(k) : k \in Groups(app)}
        \cup (IF app = "fc" THEN {BandMath(g) : g \in Groups(app)} ELSE {})
        \cup {Outer, Output}

pc_of(s) ==
    CASE s.kind = "processing_task" -> unit[<<s.a, s.b>>].pc
      [] s.kind = "inner" -> inner[s.a].pc
      [] s.kind = "process_band_math" -> band[s.a]
      [] s.kind = "outer" -> outer.pc
      [] s.kind = "create_output_products" -> output

\* past its entry check and not yet returned
Running(s) ==
    pc_of(s) \in {"load", "loaded", "check", "increment", "iterate", "finish",
                  "run"}

PathsOf(chunks) == {chunks[i].path : i \in DOMAIN chunks}

\* base_index: the time chunk size (1 without one) times the time chunk id
base_index(t) == IF Len(time_chunks) = 1 THEN 0 ELSE time_chunks[1] * t

AnimationRange == 0 .. (time_chunks[1] - 1)

\* what a task of the canvas writes to the scratch directory; the animation
\* files are those of a task with an animation
Writes(s) ==
    CASE s.kind = "processing_task" ->
            {ChunkPath(<<s.a, s.b>>)} \cup
            (IF app = "tsm"
             THEN {<<"animation", s.a, base_index(s.b) + i>> :
                      i \in 0 .. (Loads(<<s.a, s.b>>) - 1)}
             ELSE {})
      [] s.kind = "inner" /\ app = "fc" ->
            IF Len(NotNone(fc_time_inputs(s.a))) = 0 THEN {}
            ELSE {<<"recombined_time",
                    fc_total_chunks(s.a)[1].ids.geo_chunk_id>>}
      [] s.kind = "inner" /\ app = "tsm" ->
            IF Len(NotNone(tsm_geo_inputs(s.a))) = 0 THEN {}
            ELSE {<<"recombined_geo",
                    NotNone(tsm_geo_inputs(s.a))[1].ids.time_chunk_id>>}
                 \cup {<<"animation", base_index(s.a) + i>> : i \in AnimationRange}
      [] s.kind = "process_band_math" ->
            IF innerRes[s.a] = None THEN {} ELSE {innerRes[s.a].path}
      [] s.kind = "outer" /\ app = "fc" ->
            IF Len(NotNone(fc_geo_inputs)) = 0 THEN {}
            ELSE {<<"recombined_geo",
                    NotNone(fc_geo_inputs)[1].ids.time_chunk_id>>}
      [] s.kind = "outer" /\ app = "tsm" ->
            IF Len(NotNone(tsm_time_inputs)) = 0 THEN {}
            ELSE {<<"recombined_time", tsm_total_chunks[1].ids.geo_chunk_id>>}
                 \cup {<<"animation_final", time_chunks[1] * index + i>> :
                          index \in 0 .. (Len(tsm_total_chunks) - 1),
                          i \in AnimationRange}
      [] s.kind = "create_output_products" -> {}

\* what a task of the canvas opens in the scratch directory
Reads(s) ==
    CASE s.kind = "processing_task" -> {}
      [] s.kind = "inner" /\ app = "fc" -> PathsOf(NotNone(fc_time_inputs(s.a)))
      [] s.kind = "inner" /\ app = "tsm" ->
            PathsOf(NotNone(tsm_geo_inputs(s.a))) \cup
            {<<"animation", g, base_index(s.a) + i>> :
                g \in GeoIdsOf(s.a), i \in AnimationRange}
      [] s.kind = "process_band_math" ->
            IF innerRes[s.a] = None THEN {} ELSE {innerRes[s.a].path}
      [] s.kind = "outer" /\ app = "fc" -> PathsOf(NotNone(fc_geo_inputs))
      [] s.kind = "outer" /\ app = "tsm" ->
            PathsOf(NotNone(tsm_time_inputs)) \cup
            {<<"animation", time_chunks[1] * index + i>> :
                index \in 0 .. (Len(tsm_total_chunks) - 1), i \in AnimationRange}
      [] s.kind = "create_output_products" ->
            IF outerRes = None THEN {} ELSE {outerRes.path}

RECURSIVE Flatten(_)
Flatten(chunks) ==
    IF Len(chunks) = 0 THEN << >>
    ELSE Flatten(SubSeq(chunks, 1, Len(chunks) - 1)) \o chunks[Len(chunks)]

Reverse(dates) == [i \in DOMAIN dates |-> dates[Len(dates) + 1 - i]]

\* C22: the time chunks of a list of dates are non-empty runs of consecutive
\* dates, of at most the chunk size each, and put one after the other (turned
\* round when the time is reversed) they are the list of the dates, each date
\* once; without a chunk size there is one chunk with all the dates.
C22_TimeChunksPartition ==
    raw_slices # << >> =>
        LET n == Len(raw_slices)
            all == Flatten(slice_chunks)
        IN  /\ \A c \in DOMAIN slice_chunks :
                  /\ Len(slice_chunks[c]) >= 1
                  /\ time_chunk_size # NoSize =>
                        Len(slice_chunks[c]) <= time_chunk_size
                  /\ \A i \in 1 .. (Len(slice_chunks[c]) - 1) :
                        slice_chunks[c][i + 1] =
                           slice_chunks[c][i] + (IF reverse_time THEN -1 ELSE 1)
            /\ (IF reverse_time THEN Reverse(all) ELSE all) = [d \in 1 .. n |-> d]
            /\ time_chunk_size = NoSize => Len(slice_chunks) = 1

\* C22 happens: five dates, most recent first, were cut into chunks of two
\* and reduced.
C22_Witness ==
    /\ Len(raw_slices) = 5
    /\ time_chunk_size = 2
    /\ reverse_time
    /\ Len(slice_chunks) = 3
    /\ slice_chunks[3] = << 1 >>
    /\ reduced # Todo

\* the unit squares a range of longitudes and latitudes covers
Cells(chunk) ==
    {<<x, y>> : x \in chunk.longitude[1] .. (chunk.longitude[2] - 1),
                y \in chunk.latitude[1] .. (chunk.latitude[2] - 1)}

\* C23: the geographic chunks tile the extent: together they cover the
\* extent and nothing else, no two of them share any area, none is empty or
\* larger than the chunk size, and without a chunk size the one chunk is the
\* extent.
C23_GeographicChunksTile ==
    (extent # None /\ reduced # Todo) =>
        LET chunks == reduced.chunks
        IN  /\ UNION {Cells(chunks[k]) : k \in DOMAIN chunks} = Cells(extent)
            /\ \A j, k \in DOMAIN chunks :
                  j # k => Cells(chunks[j]) \cap Cells(chunks[k]) = {}
            /\ \A k \in DOMAIN chunks : Cells(chunks[k]) # {}
            /\ reduced.size # NoSize =>
                  \A k \in DOMAIN chunks :
                     Cardinality(Cells(chunks[k])) <= reduced.size * reduced.size
            /\ reduced.size = NoSize => chunks = << extent >>

\* C23 happens: an extent of three by four was tiled with squares of two,
\* the last column being narrower.
C23_Witness ==
    /\ extent # None
    /\ reduced # Todo
    /\ extent.longitude = << 1, 4 >>
    /\ extent.latitude = << 0, 4 >>
    /\ reduced.size = 2
    /\ Len(reduced.chunks) = 4
    /\ reduced.chunks[2].longitude = << 3, 4 >>

\* len(time_chunk) loads in iterative mode, one load in batch mode
ExpectedLoads(u) == IF iterative THEN time_chunks[u[2] + 1] ELSE 1

\* C24 as stated: every processing_task that returned without being cancelled
\* has made len(time_chunk) loads in iterative mode and one load in batch
\* mode.
C24_LoadsOfEveryUnit ==
    \A u \in Scheduled : unit[u].pc = "done" => unit[u].i = ExpectedLoads(u)

\* C24: a processing_task that is not cancelled and finds the scratch
\* directory of the task makes len(time_chunk) loads in iterative mode and
\* one load in batch mode; it adds exactly 1 to scenes_processed after each
\* load that returned data and nothing after a load that returned none. A
\* processing_task that does not find the scratch directory returns None
\* without a load.
C24_LoadsAndIncrements ==
    [][\A u \in UnitIds :
          unit'[u] # unit[u] =>
             /\ (unit[u].pc = "sched" /\ unit'[u].pc = "done") =>
                   unit'[u].i = 0 /\ ures'[u] = None
             /\ unit'[u].pc = "load" =>
                   unit'[u].i = unit[u].i + 1 /\ unit'[u].i <= ExpectedLoads(u)
             /\ (unit[u].pc # "sched" /\ unit'[u].pc = "done") =>
                   unit[u].i = ExpectedLoads(u)
             /\ (unit[u].pc = "loaded" /\ unit'[u].pc # "cancelled") =>
                   IF unit[u].data THEN unit'[u].pc = "check"
                   ELSE unit'[u].pc \in {"load", "done"}
             /\ (unit[u].pc = "check" /\ unit'[u].pc # "cancelled") =>
                   unit'[u].pc = "increment"
             /\ task'.scenes_processed =
                   task.scenes_processed +
                      (IF unit[u].pc = "increment" THEN 1 ELSE 0)]_vars

\* C24 happens: in iterative mode a processing_task whose first load returned
\* no data has data from its second load, scenes_processed still at 0.
C24_Witness ==
    /\ iterative
    /\ task.scenes_processed = 0
    /\ \E u \in Scheduled :
          /\ ExpectedLoads(u) = 2
          /\ unit[u].pc = "check"
          /\ unit[u].i = 2
          /\ \A v \in Scheduled \ {u} : unit[v].pc = "done" /\ ures[v] = None /\ unit[v].i > 0
    /\ Cardinality(Scheduled) = 2

\* C25: a processing_task that returns without being cancelled returns None
\* and leaves no chunk artifact exactly when none of its loads gave data;
\* otherwise it has written its artifact, {geo_chunk_id}_{time_chunk_id}.nc,
\* and returns that path with its own two ids. The return is the only step
\* of a processing_task that writes to the scratch directory, and it writes
\* that one file.
C25_ChunkArtifactOrNone ==
    [][\A u \in UnitIds :
          unit'[u] # unit[u] =>
             LET path == <<"chunk", u[1], u[2]>>
             IN  /\ (unit'[u].pc = "done" /\ ~unit[u].prod) =>
                       /\ ures'[u] = None
                       /\ files' = files
                       /\ path \notin DOMAIN files'
                 /\ (unit'[u].pc = "done" /\ unit[u].prod) =>
                       /\ ures'[u] # None
                       /\ ures'[u].path = path
                       /\ FileName(ures'[u].path) =
                             Str(u[1]) \o << 95 >> \o Str(u[2]) \o << 46, 110, 99 >>
                       /\ ures'[u].ids =
                             [geo_chunk_id |-> u[1], time_chunk_id |-> u[2]]
                       /\ path \notin DOMAIN files
                       /\ DOMAIN files' = DOMAIN files \cup {path}
                 /\ unit'[u].pc # "done" => files' = files]_vars

\* C25 happens: of two processing_tasks of one geographic chunk, one has
\* returned None after two loads without data and the other has returned its
\* artifact 0_1.nc.
C25_Witness ==
    /\ geographic_chunks = 1
    /\ Len(time_chunks) = 2
    /\ unit[<<0, 0>>].pc = "done"
    /\ unit[<<0, 0>>].i = 2
    /\ ures[<<0, 0>>] = None
    /\ unit[<<0, 1>>].pc = "done"
    /\ ures[<<0, 1>>] # None
    /\ DOMAIN files = {<<"chunk", 0, 1>>}
    /\ ~task.cancelled

\* C26: recombine_time_chunks of fractional cover adds num_scn_per_chk to
\* scenes_processed once for each of its chunks that is not None, the first
\* one included, and nothing when all are None; a fold after which the cancel
\* flag is found set adds nothing, the task returns instead.
C26_TimeReducerIncrements ==
    [][\A g \in GeoIds :
          (app = "fc" /\ inner'[g] # inner[g] /\ inner[g].pc # "off") =>
             LET chunks == Len(SelectSeq(fc_time_inputs(g), LAMBDA c : c # None))
                 increment ==
                    /\ task'.scenes_processed =
                          task.scenes_processed + num_scn_per_chk
                    /\ inner'[g] = IF inner[g].k < chunks
                                   THEN [pc |-> "iterate", k |-> inner[g].k + 1]
                                   ELSE [pc |-> "finish", k |-> chunks]
                 nothing == task'.scenes_processed = task.scenes_processed
             IN  CASE inner[g].pc = "wait" ->
                        /\ nothing
                        /\ IF task.cancelled THEN inner'[g].pc = "cancelled"
                           ELSE IF chunks = 0 THEN inner'[g].pc = "done"
                           ELSE inner'[g] = [pc |-> "iterate", k |-> 1]
                   [] inner[g].pc = "iterate" /\ inner[g].k = 1 -> increment
                   [] inner[g].pc = "iterate" /\ inner[g].k > 1 ->
                        /\ nothing
                        /\ inner'[g].pc =
                              IF task.cancelled THEN "cancelled" ELSE "increment"
                   [] inner[g].pc = "increment" -> increment
                   [] inner[g].pc = "finish" -> nothing /\ inner'[g].pc = "done"]_vars

\* C26 happens: the reducer of a geographic chunk with three time chunks, one
\* of them None, has added for its two chunks and is about to export.
C26_Witness ==
    /\ app = "fc"
    /\ \E g \in Groups(app) :
          /\ inner[g] = [pc |-> "finish", k |-> 2]
          /\ Len(time_chunks) = 3
          /\ \E t \in TimeIdsOf(g) : ures[<<g, t>>] = None
    /\ task.scenes_processed >= 2 * num_scn_per_chk

\* C27: process_band_math with a chunk that is not None and the cancel flag
\* unset writes the artifact again at the path it was given, returns the
\* chunk it was given, and adds to scenes_processed once, twice the number of
\* scenes of one geographic chunk; with None it returns None, writes nothing
\* and leaves the counter alone.
C27_BandMathInPlace ==
    [][\A g \in GeoIds :
          band'[g] # band[g] =>
             CASE band[g] = "off" -> band'[g] = "wait"
               [] band[g] = "wait" ->
                    /\ UNCHANGED <<files, bandRes>>
                    /\ task'.scenes_processed = task.scenes_processed
                    /\ band'[g] = IF task.cancelled THEN "cancelled"
                                  ELSE IF innerRes[g] = None THEN "done"
                                  ELSE "run"
               [] band[g] = "run" ->
                    /\ band'[g] = "done"
                    /\ innerRes[g] # None
                    /\ bandRes'[g] = innerRes[g]
                    /\ \A h \in GeoIds \ {g} : bandRes'[h] = bandRes[h]
                    /\ DOMAIN files' = DOMAIN files
                    /\ \A path \in DOMAIN files :
                          files'[path] =
                             IF path = innerRes[g].path
                             THEN [src |-> files[path].src, band_math |-> TRUE]
                             ELSE files[path]
                    /\ task'.scenes_processed =
                          task.scenes_processed + 2 * Sum(time_chunks)]_vars

\* C27 happens: of two geographic chunks, the band math of one has rewritten
\* its artifact and the band math of the other was handed None.
C27_Witness ==
    /\ app = "fc"
    /\ geographic_chunks = 2
    /\ band[0] = "done"
    /\ bandRes[0] # None
    /\ files[bandRes[0].path].band_math
    /\ band[1] = "done"
    /\ innerRes[1] = None
    /\ bandRes[1] = None
    /\ ~task.cancelled

\* the first step of a stage: up to its entry check
Entered(s) == pc_of(s) \in {"sched", "wait"} /\ pc_of(s)' # pc_of(s)

ChainStages == {"parse", "validate", "chunk", "start", "end"}

\* C28: a stage that starts with the cancel flag set returns at its entry
\* check: it changes no field of the task record and writes no artifact.
C28_CheckBeforeFirstWrite ==
    [][task.cancelled =>
          /\ (stage \in ChainStages /\ stage' # stage) =>
                task' = task /\ files' = files /\ stage' \in ChainStages
          /\ \A s \in CanvasTasks :
                (output # "off" /\ Entered(s)) =>
                    task' = task /\ files' = files /\ pc_of(s)' = "cancelled"]_vars

\* C29: once the task record shows status ERROR or status OK, no stage of the
\* run writes a status, resets or adds to scenes_processed, writes
\* total_scenes or schedules a processing_task.
C29_ErrorAndOkAreTerminal ==
    [][task.status \in {"ERROR", "OK"} =>
          /\ task'.status = task.status
          /\ task'.message = task.message
          /\ task'.scenes_processed = task.scenes_processed
          /\ task'.total_scenes = task.total_scenes
          /\ resets' = resets
          /\ added' = added
          /\ \A u \in UnitIds : unit[u].pc = "off" => unit'[u].pc = "off"]_vars

\* C29 happens: validate_parameters wrote ERROR after the status of the
\* validation, and the chain came to its end without scheduling anything.
C29_Witness ==
    /\ task.status = "ERROR"
    /\ task.message = "Validated parameters."
    /\ acquisitions # None
    /\ stage = "end"
    /\ output = "off"
    /\ resets = 0

\* C30: total_scenes is written and scenes_processed is set to 0 once in a
\* run, by start_chunk_processing before it schedules any processing_task;
\* after that total_scenes stays as it is and scenes_processed changes only
\* by the amount a stage adds to it.
C30_ResetOnce ==
    [][/\ (resets' # resets \/ task'.total_scenes # task.total_scenes) =>
              /\ stage = "start"
              /\ stage' = "start_check"
              /\ resets = 0
              /\ resets' = 1
              /\ task'.scenes_processed = 0
              /\ task'.total_scenes = SceneWeight(app) * num_scenes
              /\ output = "off"
              /\ \A u \in UnitIds : unit[u].pc = "off"
       /\ resets' = resets =>
              /\ task'.scenes_processed - task.scenes_processed = added' - added
              /\ added' >= added
       /\ (stage = "start_write" /\ stage' # stage) => resets = 1]_vars

\* C30 happens: after the one reset the stages have added to the counter and
\* the run has come to its end.
C30_Witness ==
    /\ resets = 1
    /\ task.total_scenes = 8
    /\ task.scenes_processed > 4
    /\ output = "done"


\* C31: once start_chunk_processing has set the counters, scenes_processed
\* is at least 0 and at most total_scenes in every state of the run, so the
\* percentage derived from the two never exceeds 100.
C31_CounterWithinTotal ==
    resets = 1 =>
        /\ 0 <= task.scenes_processed
        /\ task.scenes_processed <= task.total_scenes


\* C32: with an animation no frame is lost: once recombine_time_chunks has
\* returned, every frame animation_{geo}_{i} a processing_task wrote is part
\* of the stitched frame animation_{i}, and the final frame
\* animation_final_{i} of the same index i holds that geographic chunk too.
C32_NoFrameLost ==
    (animation_id # "none" /\ reduced.state = "done") =>
        \A g \in GeoIds : \A i \in 0 .. (MaxSlices - 1) :
            <<"animation", g, i>> \in DOMAIN files =>
                /\ <<"animation", i>> \in DOMAIN files
                /\ g \in DOMAIN files[<<"animation", i>>]
                /\ <<"animation_final", i>> \in DOMAIN files
                /\ g \in DOMAIN files[<<"animation_final", i>>]


\* what a run without time chunks holds after the scene of index k: the
\* running product of the loads of the dates 0 .. k
streamed(k) ==
    tsm_chunk_product(
        SubSeq(create_time_chunks(Len(raw_slices), reverse_time, NoSize)[1],
               1, k + 1))

\* C33: with a cumulative animation the final frame of the scene of index k
\* holds total_data, total_clean, wofs and wofs_total_clean over the scenes
\* 0 .. k, each scene once: the values of a run without time chunks after
\* scene k.
C33_CumulativeFrames ==
    (animation_id = "cumulative" /\ reduced.state = "done") =>
        \A k \in 0 .. (MaxSlices - 1) :
            <<"animation_final", k>> \in DOMAIN files =>
                LET frame == files[<<"animation_final", k>>]
                IN  \A g \in DOMAIN frame :
                       /\ frame[g].total_data = streamed(k).total_data
                       /\ frame[g].total_clean = streamed(k).total_clean
                       /\ frame[g].wofs = streamed(k).wofs
                       /\ frame[g].wofs_total_clean = streamed(k).wofs_total_clean

====
